---- MODULE Spec2Model ----
(***************************************************************************)
(* Wallet-hold / settlement ledger engine of the auction site              *)
(* (src/auctions/views.py, src/auctions/utils.py, src/auctions/models.py). *)
(*                                                                         *)
(* The database is modelled as one variable per table.  Request handlers   *)
(* run as processes; a handler is cut into steps at the points where the   *)
(* code reads rows it has not locked, waits for a row lock, or commits.    *)
(* Writes made inside `with transaction.atomic()` become visible in the    *)
(* commit step; statements outside an atomic block commit one by one.      *)
(* Row locks (select_for_update, UPDATE) taken inside an atomic block are  *)
(* held until its commit.  Money is counted in paise (1.00 = 100).         *)
(***************************************************************************)
EXTENDS Integers, Sequences, FiniteSets, TLC

\* ------------------------------------------------------------------ scenario
Users == {"A", "B"}            \* bidders
Owner == "S"                   \* seller of every item
People == Users \cup {Owner}
Items == {"x"}
Procs == {"p", "q"}            \* concurrently served requests
BidAmounts == {100, 199, 200, 300}

MaxOps == 3                    \* handler invocations in one behaviour
MaxBids == 3                   \* Bid rows created outside place_bid

StartingPrice == 100
MinIncrement == 100
MaxBidMultiplier == 1000
PenaltyAmount == 20000
SeatFee == 500

VARIABLES
  item,      \* AuctionItem rows: [is_active, is_settled]
  ended,     \* per item: timezone.now() >= ends_at
  part,      \* AuctionParticipant rows per (item, user)
  bids,      \* Bid rows, in created_at order
  wallet,    \* Wallet.balance per user
  holds,     \* WalletHold rows, in created_at order
  wtx,       \* WalletTransaction rows
  orders,    \* Order rows
  payments,  \* Payment rows
  txlog,     \* Transaction rows (audit log)
  ledger,    \* LedgerBlock rows, in insertion order
  proc,      \* per process: the handler it runs, its position and locals
  locks,     \* per process: the row locks its open transaction holds
  ops        \* handler invocations so far

vars == <<item, ended, part, bids, wallet, holds, wtx, orders, payments,
          txlog, ledger, proc, locks, ops>>

db == <<item, part, bids, wallet, holds, wtx, orders, payments, txlog, ledger>>

\* ------------------------------------------------------------------ helpers
RECURSIVE SumAmounts(_, _)
SumAmounts(s, K) ==
  IF K = {} THEN 0
  ELSE LET k == CHOOSE x \in K : TRUE IN s[k].amount + SumAmounts(s, K \ {k})

Max(S) == CHOOSE x \in S : \A y \in S : x >= y

\* models.py:84-111: a Payment row as the views create it (status 'pending',
\* processed_at NULL, provider 'google_pay' unless the view names another).
Payment(u, i, purpose, a) ==
  [buyer |-> u, item |-> i, purpose |-> purpose, amount |-> a,
   status |-> "pending", processed |-> FALSE, provider |-> "google_pay"]

Idle == [op |-> "idle", pc |-> "idle", u |-> "-", i |-> "-", a |-> 0,
         pay |-> 0, lead |-> 0, hold |-> 0, prev |-> 0, bal |-> 0,
         tail |-> 0, rel |-> {}, flag |-> FALSE, ret |-> "-",
         obj |-> Payment("-", "-", "-", 0)]

NoLocks == [item |-> {}, wallet |-> {}, hold |-> {}]

Returned(op, i, r) == [Idle EXCEPT !.op = op, !.pc = "ret", !.i = i, !.ret = r]

\* A request is taken by process "p" when it is free, by "q" otherwise: the
\* processes are interchangeable servers.
Free(p) == proc[p].pc = "idle" /\ (p = "q" => proc["p"].pc # "idle")

ItemFree(p, i)   == \A o \in Procs \ {p} : i \notin locks[o].item
WalletFree(p, u) == \A o \in Procs \ {p} : u \notin locks[o].wallet
HoldFree(p, k)   == k = 0 \/ \A o \in Procs \ {p} : k \notin locks[o].hold

\* ------------------------------------------------------------------ models.py
\* The leader with ties going to the latest of the equal bids.
highest_bid_latest(bs, i) ==
  LET S == {k \in 1..Len(bs) : bs[k].item = i /\ bs[k].is_active}
  IN IF S = {} THEN 0
     ELSE CHOOSE k \in S : \A j \in S :
            \/ bs[k].amount > bs[j].amount
            \/ (bs[k].amount = bs[j].amount /\ k >= j)

\* AuctionItem.highest_bid: bids.filter(is_active=True)
\*   .order_by('-amount', 'created_at').first(); 0 stands for None.
highest_bid(bs, i) ==
  LET S == {k \in 1..Len(bs) : bs[k].item = i /\ bs[k].is_active}
  IN IF S = {} THEN 0
     ELSE CHOOSE k \in S : \A j \in S :
            \/ bs[k].amount > bs[j].amount
            \/ (bs[k].amount = bs[j].amount /\ k <= j)

\* AuctionItem.can_accept_bids; the auction has started in every modelled
\* state, market_open is the 06:00-01:00 test on the request's clock reading.
can_accept_bids(i, market_open) ==
  item[i].is_active /\ ~ended[i] /\ market_open

\* The WalletHold table without its constraint.
no_constraint(hs) == TRUE

\* WalletHold.Meta.constraints: unique (user, item) among status = 'active'.
unique_active_hold_per_user_item(hs) ==
  \A k, j \in 1..Len(hs) :
    (hs[k].status = "active" /\ hs[j].status = "active"
       /\ hs[k].user = hs[j].user /\ hs[k].item = hs[j].item) => k = j

\* WalletHold.objects.filter(item=i, user=u, status='active').first();
\* Meta.ordering is -created_at, so the newest row; 0 stands for None.
active_hold(hs, u, i) ==
  LET S == {k \in 1..Len(hs) :
              hs[k].user = u /\ hs[k].item = i /\ hs[k].status = "active"}
  IN IF S = {} THEN 0 ELSE Max(S)

\* ------------------------------------------------------------------ utils.py
\* The balance less every hold of the user, whatever its status.
available_less_all_holds(w, hs, u) ==
  w[u] - SumAmounts(hs, {k \in 1..Len(hs) : hs[k].user = u})

get_available_balance(w, hs, u) ==
  w[u] - SumAmounts(hs, {k \in 1..Len(hs) :
                           hs[k].user = u /\ hs[k].status = "active"})

\* ------------------------------------------------------------------ ledger
\* Strings are sequences of tokens; sha256 is the digest of its argument,
\* written as the argument itself under a tag (no two strings collide).
sha256(s) == <<"sha256">> \o s

\* utils.py:28, previous_hash of the first block.
GenesisHash == <<"0">>

\* json.dumps(block_data, sort_keys=True) of utils.py:31-41.  The nonce is
\* the first one whose digest starts with "0000" (utils.py:40-45), a
\* function of the other fields, written "pow"; the timestamp is the
\* clock reading of utils.py:33, which no column of the row keeps.
block_string(index, previous_hash, data) ==
  <<"{data:">> \o data \o <<"index:", ToString(index), "nonce:", "pow",
    "previous_hash:">> \o previous_hash \o <<"timestamp:", "now@33", "}">>

\* LedgerBlock.objects.order_by('-index').first(): a row of greatest index
\* (which one, among equals, is the database's choice); 0 stands for None.
last_block(l) ==
  IF Len(l) = 0 THEN {0}
  ELSE {k \in 1..Len(l) : \A j \in 1..Len(l) : l[k].index >= l[j].index}

\* A chain that never links: every block takes the genesis value.
previous_hash_unlinked(l, t) == <<"0">>

\* utils.py:23-28 for the tail row t read at utils.py:21.
next_index(l, t) == IF t = 0 THEN 0 ELSE l[t].index + 1
next_previous_hash(l, t) == IF t = 0 THEN GenesisHash ELSE l[t].hash

\* append_ledger_block after its read of the tail: utils.py:23-54.
append_ledger_block(l, t, data) ==
  LET index == next_index(l, t)
      previous_hash == next_previous_hash(l, t)
  IN Append(l, [index |-> index, previous_hash |-> previous_hash,
                data |-> data, nonce |-> "pow", timestamp |-> "auto_now_add",
                hash |-> sha256(block_string(index, previous_hash, data))])

\* ------------------------------------------------------------------ rows
Hold(u, i, a) == [user |-> u, item |-> i, amount |-> a, status |-> "active"]
WTx(u, i, kind, a, bal) ==
  [user |-> u, item |-> i, payment |-> 0, kind |-> kind, amount |-> a,
   balance_after |-> bal]
Credit(u, k, a, bal) == [WTx(u, "-", "credit", a, bal) EXCEPT !.payment = k]
Tx(u, i, type, a) == [user |-> u, item |-> i, tx_type |-> type, amount |-> a]

Release(p) == [locks EXCEPT ![p] = NoLocks]

\* The minimum without the increment over the leader.
min_allowed_no_increment(bs, i) ==
  LET h == highest_bid(bs, i)
  IN IF h = 0 THEN StartingPrice
     ELSE IF bs[h].amount > StartingPrice THEN bs[h].amount ELSE StartingPrice

\* ------------------------------------------------------------------ place_bid
\* views.py:218-220 and 246-248.
min_allowed(bs, i) ==
  LET h == highest_bid(bs, i)
  IN IF h = 0 THEN StartingPrice
     ELSE IF bs[h].amount + MinIncrement > StartingPrice
          THEN bs[h].amount + MinIncrement ELSE StartingPrice

\* views.py:233-236 and 258-263: the funds a bid of a needs beyond hold h.
required_extra(hs, h, a) ==
  IF h = 0 THEN a ELSE IF a - hs[h].amount < 0 THEN 0 ELSE a - hs[h].amount

\* AuctionParticipant.objects.get_or_create(item=i, user=u).
get_or_create_participant(pt, i, u) == [pt EXCEPT ![i][u].row = TRUE]

\* views.py:208: item.participants.count(), every row of the item.
participants_rows(pt, i) == Cardinality({u \in People : pt[i][u].row})

\* views.py:190-240: the checks made before the atomic block.
pb_precheck(pt, u, i, a, market_open) ==
  IF u = Owner THEN "OwnerCannotBid"
  ELSE IF ~can_accept_bids(i, market_open) THEN "BiddingClosed"
  ELSE IF ~pt[i][u].is_booked THEN "SeatNotBooked"
  ELSE IF pt[i][u].penalty_due THEN "PenaltyDue"
  ELSE IF participants_rows(pt, i) < 2 THEN "InsufficientParticipants"
  ELSE IF a < min_allowed(bids, i) THEN "BidTooLow"
  ELSE IF a > StartingPrice * MaxBidMultiplier THEN "BidUnreasonablyHigh"
  ELSE IF get_available_balance(wallet, holds, u)
            < required_extra(holds, active_hold(holds, u, i), a)
       THEN "InsufficientFunds"
  ELSE "ok"

\* views.py:188-240.  get_or_create at line 199 runs once the owner and
\* closed checks have passed, and its row stays when a later check rejects.
pb_start(p, u, i, a, market_open) ==
  /\ Free(p)
  /\ ops < MaxOps
  /\ ops' = ops + 1
  /\ LET reached == u # Owner /\ can_accept_bids(i, market_open)
         pt == IF reached THEN get_or_create_participant(part, i, u) ELSE part
         r == pb_precheck(pt, u, i, a, market_open)
     IN /\ part' = pt
        /\ proc' = [proc EXCEPT ![p] =
              IF r = "ok"
              THEN [Idle EXCEPT !.op = "place_bid", !.pc = "pb_lock_item",
                                !.u = u, !.i = i, !.a = a]
              ELSE Returned("place_bid", "-", r)]
  /\ UNCHANGED <<item, ended, bids, wallet, holds, wtx, orders, payments,
                 txlog, ledger, locks>>

\* place_bid without the re-check of views.py:246-251 under the item lock.
pb_lock_item_unchecked(p) ==
  /\ proc[p].pc = "pb_lock_item"
  /\ ItemFree(p, proc[p].i)
  /\ proc' = [proc EXCEPT ![p].pc = "pb_lock_wallet",
                          ![p].lead = highest_bid(bids, proc[p].i)]
  /\ locks' = [locks EXCEPT ![p].item = @ \cup {proc[p].i}]
  /\ UNCHANGED <<db, ended, ops>>

\* views.py:242-251: lock the item row, read the leader again, re-check.
pb_lock_item(p) ==
  /\ proc[p].pc = "pb_lock_item"
  /\ ItemFree(p, proc[p].i)
  /\ IF proc[p].a < min_allowed(bids, proc[p].i)
     THEN /\ proc' = [proc EXCEPT ![p] = Returned("place_bid", "-", "BidTooLow")]
          /\ locks' = Release(p)
     ELSE /\ proc' = [proc EXCEPT ![p].pc = "pb_lock_wallet",
                                  ![p].lead = highest_bid(bids, proc[p].i)]
          /\ locks' = [locks EXCEPT ![p].item = @ \cup {proc[p].i}]
  /\ UNCHANGED <<db, ended, ops>>

\* views.py:254-255: lock the bidder's wallet row.
pb_lock_wallet(p) ==
  /\ proc[p].pc = "pb_lock_wallet"
  /\ WalletFree(p, proc[p].u)
  /\ proc' = [proc EXCEPT ![p].pc = "pb_lock_hold"]
  /\ locks' = [locks EXCEPT ![p].wallet = @ \cup {proc[p].u}]
  /\ UNCHANGED <<db, ended, ops>>

\* views.py:256-268: lock the bidder's active hold, re-check the funds.
pb_lock_hold(p) ==
  /\ proc[p].pc = "pb_lock_hold"
  /\ LET u == proc[p].u
         h == active_hold(holds, u, proc[p].i)
     IN /\ HoldFree(p, h)
        /\ IF get_available_balance(wallet, holds, u)
                < required_extra(holds, h, proc[p].a)
           THEN /\ proc' = [proc EXCEPT
                              ![p] = Returned("place_bid", "-", "InsufficientFunds")]
                /\ locks' = Release(p)
           ELSE /\ proc' = [proc EXCEPT ![p].pc = "pb_lock_prev", ![p].hold = h]
                /\ locks' = [locks EXCEPT ![p].hold = @ \cup ({h} \ {0})]
  /\ UNCHANGED <<db, ended, ops>>

\* views.py:292: the previous leader whose hold is to be released, "-" if
\* the leader read at line 245 is absent or is the bidder.
pb_previous(bs, lead, u) ==
  IF lead # 0 /\ bs[lead].bidder # u THEN bs[lead].bidder ELSE "-"

\* views.py:291-297 and utils.py:21: lock the previous leader's active hold,
\* read that wallet's balance and the ledger's tail.
pb_lock_prev(p) ==
  /\ proc[p].pc = "pb_lock_prev"
  /\ LET o == pb_previous(bids, proc[p].lead, proc[p].u)
         pv == IF o = "-" THEN 0 ELSE active_hold(holds, o, proc[p].i)
     IN /\ HoldFree(p, pv)
        /\ \E t \in last_block(ledger) :
             proc' = [proc EXCEPT ![p].pc = "pb_commit", ![p].prev = pv,
                         ![p].tail = t,
                         ![p].bal = IF pv = 0 THEN 0 ELSE wallet[o]]
        /\ locks' = [locks EXCEPT ![p].hold = @ \cup ({pv} \ {0})]
  /\ UNCHANGED <<db, ended, ops>>

\* views.py:269-289: reserve or raise the bidder's hold.
pb_reserve(hs, h, u, i, a) ==
  IF h = 0 THEN Append(hs, Hold(u, i, a))
  ELSE IF required_extra(hs, h, a) > 0 THEN [hs EXCEPT ![h].amount = a]
  ELSE hs

\* The previous leader's hold left as it is.
pb_release_skipped(hs, pv) == hs

\* views.py:291-296: release the previous leader's hold.
pb_release(hs, pv) ==
  IF pv = 0 THEN hs ELSE [hs EXCEPT ![pv].status = "released"]

\* views.py:269-323: the writes of the atomic block and its commit.  An
\* insert that breaks the unique constraint raises IntegrityError and the
\* block is rolled back.  The ledger payload carries new_bid.tx_id
\* (views.py:320): json.dumps of utils.py:41 encodes it when it is a str
\* and raises TypeError, rolling the block back, when it is the uuid.UUID
\* object that the field default uuid.uuid4 (models.py:54) leaves on a new
\* instance.  models.py of this tree is not the one views.py was written
\* against (it lacks the Transaction and BankAccount models that views.py
\* and utils.py import), so both outcomes are kept: tx_id_is_str.
pb_commit(p, tx_id_is_str) ==
  /\ proc[p].pc = "pb_commit"
  /\ LET u == proc[p].u
         i == proc[p].i
         a == proc[p].a
         h == proc[p].hold
         pv == proc[p].prev
         d == required_extra(holds, h, a)
         hs1 == pb_reserve(holds, h, u, i, a)
         w1 == IF d > 0 THEN Append(wtx, WTx(u, i, "hold_reserve", d, wallet[u]))
               ELSE wtx
         w2 == IF pv = 0 THEN w1
               ELSE Append(w1, WTx(holds[pv].user, i, "hold_release",
                                   holds[pv].amount, proc[p].bal))
     IN IF ~unique_active_hold_per_user_item(hs1)
        THEN /\ proc' = [proc EXCEPT
                           ![p] = Returned("place_bid", "-", "IntegrityError")]
             /\ UNCHANGED <<holds, wtx, bids, txlog, ledger>>
        ELSE IF ~tx_id_is_str
        THEN /\ proc' = [proc EXCEPT
                           ![p] = Returned("place_bid", "-", "TypeError")]
             /\ UNCHANGED <<holds, wtx, bids, txlog, ledger>>
        ELSE /\ proc' = [proc EXCEPT ![p] = Returned("place_bid", "-", "ok")]
             /\ holds' = pb_release(hs1, pv)
             /\ wtx' = w2
             /\ bids' = Append(bids, [item |-> i, bidder |-> u, amount |-> a,
                                      is_active |-> TRUE])
             /\ txlog' = Append(txlog, Tx(u, i, "BID", a))
             /\ ledger' = append_ledger_block(ledger, proc[p].tail,
                             <<"bid_placed", i, u, ToString(a)>>)
  /\ locks' = Release(p)
  /\ UNCHANGED <<item, ended, part, wallet, orders, payments, ops>>

\* The response leaves the server; the process can serve the next request.
respond(p) ==
  /\ proc[p].pc = "ret"
  /\ proc' = [proc EXCEPT ![p] = Idle]
  /\ UNCHANGED <<db, ended, locks, ops>>

\* ------------------------------------------------------------------ settlement
\* views.py:901-912: the settle view loads the item and screens it.  The
\* requester is the owner or staff (line 904).
sv_start(p, i) ==
  /\ Free(p)
  /\ ops < MaxOps
  /\ ops' = ops + 1
  /\ proc' = [proc EXCEPT ![p] =
        IF item[i].is_settled THEN Returned("settle", i, "AlreadySettled")
        ELSE IF ~ended[i] THEN Returned("settle", i, "NotEnded")
        ELSE IF highest_bid(bids, i) = 0
             THEN [Idle EXCEPT !.op = "settle", !.pc = "sv_close", !.i = i]
        ELSE [Idle EXCEPT !.op = "settle_auction_item", !.pc = "sa_lock",
                          !.i = i]]
  /\ UNCHANGED <<db, ended, locks>>

\* The no-bid close marking the item settled and leaving it active.
sv_close_left_active(p) ==
  /\ proc[p].pc = "sv_close"
  /\ ItemFree(p, proc[p].i)
  /\ item' = [item EXCEPT ![proc[p].i] =
                [is_active |-> TRUE, is_settled |-> TRUE]]
  /\ proc' = [proc EXCEPT ![p] = Returned("settle", proc[p].i, "NoBids")]
  /\ UNCHANGED <<ended, part, bids, wallet, holds, wtx, orders, payments,
                 txlog, ledger, locks, ops>>

\* views.py:914-919: no active bid was read, close the auction.
sv_close(p) ==
  /\ proc[p].pc = "sv_close"
  /\ ItemFree(p, proc[p].i)
  /\ item' = [item EXCEPT ![proc[p].i] =
                [is_active |-> FALSE, is_settled |-> TRUE]]
  /\ proc' = [proc EXCEPT ![p] = Returned("settle", proc[p].i, "NoBids")]
  /\ UNCHANGED <<ended, part, bids, wallet, holds, wtx, orders, payments,
                 txlog, ledger, locks, ops>>

\* settle_auctions.py:15-26 with --limit 1: the command takes an item of
\* its queryset (active, unsettled, ended) and calls settle_auction_item.
cmd_handle(p, i) ==
  /\ Free(p)
  /\ ops < MaxOps
  /\ item[i].is_active /\ ~item[i].is_settled /\ ended[i]
  /\ ops' = ops + 1
  /\ proc' = [proc EXCEPT ![p] =
        [Idle EXCEPT !.op = "settle_auction_item", !.pc = "sa_lock", !.i = i]]
  /\ UNCHANGED <<db, ended, locks>>

\* settle_auction_item without the test of utils.py:169.
sa_call_unchecked(p, i) ==
  /\ Free(p)
  /\ ops < MaxOps
  /\ ops' = ops + 1
  /\ proc' = [proc EXCEPT ![p] =
        [Idle EXCEPT !.op = "settle_auction_item", !.pc = "sa_lock", !.i = i]]
  /\ UNCHANGED <<db, ended, locks>>

\* utils.py:167-170: settle_auction_item(item) called with an item the
\* caller has just loaded; the test of line 169 reads that object.
sa_call(p, i) ==
  /\ Free(p)
  /\ ops < MaxOps
  /\ ops' = ops + 1
  /\ proc' = [proc EXCEPT ![p] =
        IF item[i].is_settled THEN Returned("settle_auction_item", i, "False")
        ELSE [Idle EXCEPT !.op = "settle_auction_item", !.pc = "sa_lock",
                          !.i = i]]
  /\ UNCHANGED <<db, ended, locks>>

\* utils.py:173-176.  The select_for_update of line 173 runs before the
\* atomic block of line 178 is entered, so no transaction of this function
\* keeps the item row locked; is_settled of the fresh row is not tested.
sa_lock(p) ==
  /\ proc[p].pc = "sa_lock"
  /\ LET h == highest_bid(bids, proc[p].i)
     IN proc' = [proc EXCEPT ![p] =
          IF h = 0 THEN Returned(proc[p].op, proc[p].i, "False")
          ELSE [proc[p] EXCEPT !.pc = "sa_hold", !.lead = h]]
  /\ UNCHANGED <<db, ended, locks, ops>>

\* utils.py:178-192: enter the atomic block, lock the winner's active hold.
sa_hold(p) ==
  /\ proc[p].pc = "sa_hold"
  /\ LET h == active_hold(holds, bids[proc[p].lead].bidder, proc[p].i)
     IN /\ HoldFree(p, h)
        /\ proc' = [proc EXCEPT ![p].hold = h,
                       ![p].pc = IF h = 0 THEN "sa_item" ELSE "sa_wallet"]
        /\ locks' = [locks EXCEPT ![p].hold = @ \cup ({h} \ {0})]
  /\ UNCHANGED <<db, ended, ops>>

\* utils.py:198-199: lock the winner's wallet row and read its balance.
sa_wallet(p) ==
  /\ proc[p].pc = "sa_wallet"
  /\ LET w == bids[proc[p].lead].bidder
     IN /\ WalletFree(p, w)
        /\ proc' = [proc EXCEPT ![p].pc = "sa_item", ![p].bal = wallet[w]]
        /\ locks' = [locks EXCEPT ![p].wallet = @ \cup {w}]
  /\ UNCHANGED <<db, ended, ops>>

\* utils.py:220-222: the UPDATE of the item row takes its row lock.
sa_item(p) ==
  /\ proc[p].pc = "sa_item"
  /\ ItemFree(p, proc[p].i)
  /\ proc' = [proc EXCEPT ![p].pc = "sa_others"]
  /\ locks' = [locks EXCEPT ![p].item = @ \cup {proc[p].i}]
  /\ UNCHANGED <<db, ended, ops>>

\* utils.py:225-227: the active holds of the item that are not the winner's.
other_holds(hs, i, w) ==
  {k \in 1..Len(hs) : hs[k].item = i /\ hs[k].status = "active" /\ hs[k].user # w}

\* utils.py:225-230 and utils.py:21: the UPDATE locks the other holds; then
\* the ledger's tail is read.
sa_others(p) ==
  /\ proc[p].pc = "sa_others"
  /\ LET R == other_holds(holds, proc[p].i, bids[proc[p].lead].bidder)
     IN /\ \A k \in R : HoldFree(p, k)
        /\ \E t \in last_block(ledger) :
             proc' = [proc EXCEPT ![p].pc = "sa_commit", ![p].rel = R,
                                  ![p].tail = t]
        /\ locks' = [locks EXCEPT ![p].hold = @ \cup R]
  /\ UNCHANGED <<db, ended, ops>>

\* The hold rows with the winner's hold left active.
sa_holds_unconsumed(hs, h, R) ==
  [k \in 1..Len(hs) |->
     IF k \in R THEN [hs[k] EXCEPT !.status = "released"] ELSE hs[k]]

\* utils.py:193-195 and 225-230: the hold rows after settlement.
sa_holds(hs, h, R) ==
  [k \in 1..Len(hs) |->
     IF k = h THEN [hs[k] EXCEPT !.status = "consumed"]
     ELSE IF k \in R THEN [hs[k] EXCEPT !.status = "released"]
     ELSE hs[k]]

\* utils.py:180-186: the winner's order.
sa_order(i, w, a) == [item |-> i, buyer |-> w, amount |-> a, status |-> "paid"]

\* utils.py:178-242: the writes of the atomic block and its commit.
sa_commit(p) ==
  /\ proc[p].pc = "sa_commit"
  /\ LET i == proc[p].i
         b == bids[proc[p].lead]
         w == b.bidder
         h == proc[p].hold
         nb == proc[p].bal - holds[h].amount
     IN /\ orders' = Append(orders, sa_order(i, w, b.amount))
        /\ holds' = sa_holds(holds, h, proc[p].rel)
        /\ wallet' = IF h = 0 THEN wallet ELSE [wallet EXCEPT ![w] = nb]
        /\ wtx' = IF h = 0 THEN wtx
                  ELSE Append(wtx, WTx(w, i, "hold_consume", holds[h].amount, nb))
        /\ txlog' = IF h = 0 THEN txlog
                    ELSE Append(txlog, Tx(w, i, "PAYMENT", holds[h].amount))
        /\ item' = [item EXCEPT ![i] = [is_active |-> FALSE, is_settled |-> TRUE]]
        /\ ledger' = append_ledger_block(ledger, proc[p].tail,
                        <<"auction_settled", i, w, ToString(b.amount),
                          ToString(Len(orders) + 1)>>)
        /\ proc' = [proc EXCEPT ![p] = Returned(proc[p].op, proc[p].i, "True")]
  /\ locks' = Release(p)
  /\ UNCHANGED <<ended, part, bids, payments, ops>>

\* ------------------------------------------------------------------ presence
\* views.py:770: the leader's participant row shows them offline for more
\* than 30 seconds and carries no penalty yet.
offline_leader(pt, i, bs, h) ==
  /\ h # 0
  /\ pt[i][bs[h].bidder].row
  /\ pt[i][bs[h].bidder].seen = "stale"
  /\ ~pt[i][bs[h].bidder].penalty_due

\* views.py:756-770: record the ping, read the leader and their presence.
pp_start(p, u, i) ==
  /\ Free(p)
  /\ ops < MaxOps
  /\ ops' = ops + 1
  /\ LET pt == [part EXCEPT ![i][u].row = TRUE, ![i][u].seen = "fresh"]
         h == highest_bid(bids, i)
     IN /\ part' = pt
        /\ proc' = [proc EXCEPT ![p] =
              IF offline_leader(pt, i, bids, h)
              THEN [Idle EXCEPT !.op = "presence_ping", !.pc = "pp_penalize",
                                !.i = i, !.lead = h, !.u = bids[h].bidder]
              ELSE Returned("presence_ping", "-", "ok")]
  /\ UNCHANGED <<item, ended, bids, wallet, holds, wtx, orders, payments,
                 txlog, ledger, locks>>

\* views.py:782: deactivate every active bid of user u on item i.
deactivate_bids(bs, i, u) ==
  [k \in 1..Len(bs) |->
     IF bs[k].item = i /\ bs[k].bidder = u
     THEN [bs[k] EXCEPT !.is_active = FALSE] ELSE bs[k]]


\* views.py:771-784 (and utils.py:21 when there is no hold to release):
\* penalty payment, penalty_due, the leader's bids, then read their hold.
pp_penalize(p) ==
  /\ proc[p].pc = "pp_penalize"
  /\ LET u == proc[p].u
         i == proc[p].i
         h == active_hold(holds, u, i)
     IN /\ payments' = Append(payments, Payment(u, i, "penalty", PenaltyAmount))
        /\ part' = [part EXCEPT ![i][u].penalty_due = TRUE]
        /\ bids' = deactivate_bids(bids, i, u)
        /\ \E t \in last_block(ledger) :
             proc' = [proc EXCEPT ![p].pay = Len(payments) + 1,
                         ![p].hold = h,
                         ![p].a = IF h = 0 THEN 0 ELSE holds[h].amount,
                         ![p].tail = IF h = 0 THEN t ELSE 0,
                         ![p].pc = IF h = 0 THEN "pp_append" ELSE "pp_release"]
  /\ UNCHANGED <<item, ended, wallet, holds, wtx, orders, txlog, ledger,
                 locks, ops>>

\* views.py:786-795 and utils.py:21: write the hold row read above as
\* released, log the release, read the ledger's tail.
pp_release(p) ==
  /\ proc[p].pc = "pp_release"
  /\ HoldFree(p, proc[p].hold)
  /\ holds' = [holds EXCEPT ![proc[p].hold].status = "released"]
  /\ wtx' = Append(wtx, WTx(proc[p].u, proc[p].i, "hold_release", proc[p].a,
                            wallet[proc[p].u]))
  /\ \E t \in last_block(ledger) :
       proc' = [proc EXCEPT ![p].pc = "pp_append", ![p].tail = t]
  /\ UNCHANGED <<item, ended, part, bids, wallet, orders, payments, txlog,
                 ledger, locks, ops>>

\* views.py:796-804 through utils.py:23-56: insert the penalty block.
pp_append(p) ==
  /\ proc[p].pc = "pp_append"
  /\ ledger' = append_ledger_block(ledger, proc[p].tail,
                  <<"penalty_assessed", proc[p].i, proc[p].u,
                    ToString(proc[p].pay), ToString(PenaltyAmount)>>)
  /\ proc' = [proc EXCEPT ![p] = Returned("presence_ping", "-", "ok")]
  /\ UNCHANGED <<item, ended, part, bids, wallet, holds, wtx, orders,
                 payments, txlog, locks, ops>>

\* ------------------------------------------------------------------ payments
\* views.py:467-473 and utils.py:76-79: the callback loads the payment,
\* saves status = 'succeeded' and calls apply_payment_effects, which tests
\* processed_at of the loaded object.
google_pay_callback(p, k) ==
  /\ Free(p)
  /\ ops < MaxOps
  /\ k \in 1..Len(payments)
  /\ ops' = ops + 1
  /\ payments' = [payments EXCEPT ![k].status = "succeeded"]
  /\ LET pay == payments[k]
     IN proc' = [proc EXCEPT ![p] =
          IF pay.processed
          THEN Returned("apply_payment_effects", "-", "None")
          ELSE [Idle EXCEPT !.op = "apply_payment_effects", !.pc = "ap_read",
                   !.pay = k, !.u = pay.buyer, !.i = pay.item,
                   !.a = pay.amount]]
  /\ UNCHANGED <<item, ended, part, bids, wallet, holds, wtx, orders, txlog,
                 ledger, locks>>

\* utils.py:81-84, 106-108, 127-129: inside the atomic block, read the
\* wallet balance (recharge) or the participant row (seat, penalty).
ap_read(p) ==
  /\ proc[p].pc = "ap_read"
  /\ LET pay == payments[proc[p].pay]
     IN proc' = [proc EXCEPT ![p].pc = "ap_write",
                   ![p].bal = IF pay.purpose = "recharge"
                              THEN wallet[pay.buyer] ELSE 0,
                   ![p].flag = IF pay.purpose \in {"seat", "penalty"}
                               THEN part[pay.item][pay.buyer].row ELSE FALSE]
  /\ UNCHANGED <<db, ended, locks, ops>>

\* utils.py:84-86: the balance written is the one read plus the amount.
ap_credit(bal, a) == bal + a

\* utils.py:109-114 and 130-132: the participant row after a seat or a
\* penalty payment (update_fields leaves the other columns alone).
ap_participant(pt, purpose, i, u) ==
  IF purpose = "seat"
  THEN [pt EXCEPT ![i][u].is_booked = TRUE, ![i][u].paid = TRUE,
                  ![i][u].code = TRUE]
  ELSE [pt EXCEPT ![i][u].penalty_due = FALSE]

\* utils.py:245-249: _generate_booking_code calls secrets.choices; the
\* module secrets (utils.py:11) has no such attribute, so the call raises.
generate_booking_code == "AttributeError"

\* utils.py:81-164: the writes of the atomic block and its commit.  The
\* UPDATE of the wallet row waits for a transaction that holds its lock.
\* In the seat branch with a participant row, line 113 raises before the
\* save of line 114 and the block is rolled back.
ap_write(p) ==
  /\ proc[p].pc = "ap_write"
  /\ LET k == proc[p].pay
         u == proc[p].u
         i == proc[p].i
         a == proc[p].a
         purpose == payments[k].purpose
         raised == /\ purpose = "seat" /\ proc[p].flag
                   /\ generate_booking_code = "AttributeError"
     IN /\ purpose = "recharge" => WalletFree(p, u)
        /\ wallet' = IF purpose = "recharge"
                     THEN [wallet EXCEPT ![u] = ap_credit(proc[p].bal, a)]
                     ELSE wallet
        /\ wtx' = IF purpose = "recharge"
                  THEN Append(wtx, Credit(u, k, a, ap_credit(proc[p].bal, a)))
                  ELSE wtx
        /\ part' = IF purpose \in {"seat", "penalty"} /\ proc[p].flag /\ ~raised
                   THEN ap_participant(part, purpose, i, u) ELSE part
        /\ orders' = IF purpose \in {"order", "buy_now"}
                     THEN Append(orders, [item |-> i, buyer |-> u,
                                          amount |-> a, status |-> "paid"])
                     ELSE orders
        /\ txlog' = IF raised THEN txlog
                    ELSE Append(txlog, Tx(u, i, IF purpose = "recharge"
                                                THEN "RECHARGE" ELSE "PAYMENT", a))
        /\ payments' = IF raised THEN payments
                       ELSE [payments EXCEPT ![k].processed = TRUE]
        /\ proc' = [proc EXCEPT ![p] =
             Returned("apply_payment_effects", "-",
                      IF raised THEN "AttributeError" ELSE "None")]
  /\ UNCHANGED <<item, ended, bids, holds, ledger, locks, ops>>

\* ------------------------------------------------------------------ time
\* timezone.now() reaches the item's ends_at.
auction_end(i) ==
  /\ ~ended[i]
  /\ ended' = [ended EXCEPT ![i] = TRUE]
  /\ UNCHANGED <<db, proc, locks, ops>>

\* Thirty seconds pass without a ping from user u on item i.  The code
\* reads last_seen_at of the leader only (views.py:767-770), so the step is
\* taken for the leader.
go_offline(i, u) ==
  /\ part[i][u].seen = "fresh"
  /\ highest_bid(bids, i) # 0
  /\ bids[highest_bid(bids, i)].bidder = u
  /\ part' = [part EXCEPT ![i][u].seen = "stale"]
  /\ UNCHANGED <<item, ended, bids, wallet, holds, wtx, orders, payments,
                 txlog, ledger, proc, locks, ops>>

\* ------------------------------------------------------------------ Spec
Participant(row, booked, seen) ==
  [row |-> row, is_booked |-> booked, paid |-> booked, code |-> booked,
   penalty_due |-> FALSE, seen |-> seen, unbooked |-> FALSE]

InitialBalance(u) == IF u = "A" THEN 100 ELSE 300

\* An open auction of the seller: both bidders have paid for and booked a
\* seat and are present, A has 1.00 and B 3.00 in the wallet (credited by
\* processed recharges), and A has started two more recharges.
Init ==
  /\ item = [i \in Items |-> [is_active |-> TRUE, is_settled |-> FALSE]]
  /\ ended = [i \in Items |-> FALSE]
  /\ part = [i \in Items |-> [u \in People |->
               IF u = Owner THEN Participant(TRUE, FALSE, "never")
               ELSE Participant(TRUE, TRUE, "fresh")]]
  /\ bids = <<>>
  /\ wallet = [u \in Users |-> InitialBalance(u)]
  /\ holds = <<>>
  /\ wtx = <<WTx("A", "-", "credit", 100, 100), WTx("B", "-", "credit", 300, 300)>>
  /\ orders = <<>>
  /\ payments = <<Payment("A", "-", "recharge", 200),
                  Payment("A", "-", "recharge", 100)>>
  /\ txlog = <<>>
  /\ ledger = <<>>
  /\ proc = [p \in Procs |-> Idle]
  /\ locks = [p \in Procs |-> NoLocks]
  /\ ops = 0

Bidding ==
  \/ \E p \in Procs, u \in Users, i \in Items, a \in BidAmounts,
        market_open \in BOOLEAN : pb_start(p, u, i, a, market_open)
  \/ \E p \in Procs : pb_lock_item(p)
  \/ \E p \in Procs : pb_lock_wallet(p)
  \/ \E p \in Procs : pb_lock_hold(p)
  \/ \E p \in Procs : pb_lock_prev(p)
  \/ \E p \in Procs, tx_id_is_str \in BOOLEAN : pb_commit(p, tx_id_is_str)

Settling ==
  \/ \E p \in Procs, i \in Items : sv_start(p, i)
  \/ \E p \in Procs : sv_close(p)
  \/ \E p \in Procs, i \in Items : cmd_handle(p, i)
  \/ \E p \in Procs, i \in Items : sa_call(p, i)
  \/ \E p \in Procs : sa_lock(p)
  \/ \E p \in Procs : sa_hold(p)
  \/ \E p \in Procs : sa_wallet(p)
  \/ \E p \in Procs : sa_item(p)
  \/ \E p \in Procs : sa_others(p)
  \/ \E p \in Procs : sa_commit(p)

Presence ==
  \/ \E p \in Procs, u \in Users, i \in Items : pp_start(p, u, i)
  \/ \E p \in Procs : pp_penalize(p)
  \/ \E p \in Procs : pp_release(p)
  \/ \E p \in Procs : pp_append(p)

\* Primary keys of Payment rows: the two of Init and one per request.
PaymentIds == 1..(2 + MaxOps)

Paying ==
  \/ \E p \in Procs, k \in PaymentIds : google_pay_callback(p, k)
  \/ \E p \in Procs : ap_read(p)
  \/ \E p \in Procs : ap_write(p)

Time ==
  \/ \E p \in Procs : respond(p)
  \/ \E i \in Items : auction_end(i)
  \/ \E i \in Items, u \in Users : go_offline(i, u)

Next == Bidding \/ Settling \/ Presence \/ Paying \/ Time

Spec == Init /\ [][Next]_vars

\* ------------------------------------------------ holds created directly
\* tests.py:31: WalletHold.objects.create(user, item, amount) outside any
\* view.  The INSERT is accepted only if the table still satisfies
\* unique_active_hold_per_user_item; otherwise it raises IntegrityError.
WalletHold_create(u, i, a) ==
  /\ ops < MaxOps
  /\ ops' = ops + 1
  /\ holds' = IF unique_active_hold_per_user_item(Append(holds, Hold(u, i, a)))
              THEN Append(holds, Hold(u, i, a)) ELSE holds
  /\ UNCHANGED <<item, ended, part, bids, wallet, wtx, orders, payments,
                 txlog, ledger, proc, locks>>

NextHold ==
  \/ Bidding \/ Settling \/ Presence \/ Time
  \/ \E u \in Users, i \in Items, a \in {100} : WalletHold_create(u, i, a)

SpecHold == Init /\ [][NextHold]_vars

\* ------------------------------------------------------------------ C1
\* C1: in every reachable state, under any interleaving of place_bid,
\* presence_ping and settle_auction_item (and of holds created directly),
\* each (user, item) pair has at most one WalletHold with status 'active'.
C1_OneActiveHold ==
  \A u \in Users, i \in Items :
    Cardinality({k \in 1..Len(holds) :
       holds[k].user = u /\ holds[k].item = i /\ holds[k].status = "active"}) <= 1

\* A pair with an active hold next to an earlier hold of the same pair that
\* is no longer active: a second reservation was made for the pair.
C1_Witness ==
  \E k, j \in 1..Len(holds) :
    /\ k < j
    /\ holds[k].user = holds[j].user /\ holds[k].item = holds[j].item
    /\ holds[k].status # "active" /\ holds[j].status = "active"


\* ------------------------------------------------------------------ C2
\* C2: in every reachable state every user's available balance, the wallet
\* balance minus the sum of the user's active holds, is at least zero.
C2_AvailableNonNegative ==
  \A u \in Users : get_available_balance(wallet, holds, u) >= 0

\* ------------------------------------------------------------------ C3
SettleOps == {"settle", "settle_auction_item"}

C4_SettledOnce ==
  \A i \in Items :
    /\ Cardinality({k \in 1..Len(orders) : orders[k].item = i}) <= 1
    /\ Cardinality({k \in 1..Len(ledger) :
          ledger[k].data[1] = "auction_settled" /\ ledger[k].data[2] = i}) <= 1
    /\ Cardinality({k \in 1..Len(wtx) :
          wtx[k].kind = "hold_consume" /\ wtx[k].item = i}) <= 1

\* ------------------------------------------------------------------ C5
\* C5: a call of apply_payment_effects that applies the payment's effects
\* reports true, a call on a payment already processed reports false.
C5_ReportsApplied ==
  [][\A p \in Procs :
       (proc[p].pc # "ret" /\ proc'[p].pc = "ret"
          /\ proc'[p].op = "apply_payment_effects")
         => proc'[p].ret = (IF proc[p].pc = "ap_write" THEN "True" ELSE "False")]_vars

\* ------------------------------------------------------------------ C6
\* C6: however the callbacks for a payment interleave, a recharge of X
\* raises the buyer's balance by X once: the balance never exceeds the
\* initial balance plus the amounts of the buyer's processed recharges.
C6_CreditedOnce ==
  \A u \in Users :
    wallet[u] <= InitialBalance(u)
                 + SumAmounts(payments, {k \in 1..Len(payments) :
                      /\ payments[k].buyer = u
                      /\ payments[k].purpose = "recharge"
                      /\ payments[k].processed})

\* ------------------------------------------------------------------ C7
\* C7: the index values of the ledger's N blocks are exactly 0..N-1, with
\* no duplicate and no gap.
C7_ContiguousIndices ==
  /\ {ledger[k].index : k \in 1..Len(ledger)} = 0..(Len(ledger) - 1)
  /\ \A k, j \in 1..Len(ledger) : ledger[k].index = ledger[j].index => k = j

\* ------------------------------------------------------------------ C8
Zeros64 == <<"0000000000000000000000000000000000000000000000000000000000000000">>

\* C8 as stated: a block of index 0 has the 64-zero genesis value as its
\* previous_hash, a block of index i > 0 the hash of a block of index i-1.
C8_Original ==
  \A k \in 1..Len(ledger) :
    IF ledger[k].index = 0 THEN ledger[k].previous_hash = Zeros64
    ELSE \E j \in 1..Len(ledger) :
           /\ ledger[j].index = ledger[k].index - 1
           /\ ledger[k].previous_hash = ledger[j].hash

\* C8 amended: a block of index 0 has previous_hash "0", a block of index
\* i > 0 has as previous_hash the hash of a block of index i-1.
C8_Linked ==
  \A k \in 1..Len(ledger) :
    IF ledger[k].index = 0 THEN ledger[k].previous_hash = <<"0">>
    ELSE \E j \in 1..Len(ledger) :
           /\ ledger[j].index = ledger[k].index - 1
           /\ ledger[k].previous_hash = ledger[j].hash

\* The ledger holds a genesis block and a block linked to it.
C8_Witness ==
  \E k, j \in 1..Len(ledger) : ledger[k].index = 0 /\ ledger[j].index = 1

\* ------------------------------------------------------------------ C9
\* SHA-256 of str(index) + '|' + previous_hash + '|' + str(payload).
stated_digest(b) ==
  sha256(<<ToString(b.index), "|">> \o b.previous_hash \o <<"|">> \o b.data)

\* C9: the stored hash of every block is the digest of its stored index,
\* previous_hash and payload alone, so recomputing it from the row
\* reproduces it.
C9_Recomputable ==
  \A k \in 1..Len(ledger) : ledger[k].hash = stated_digest(ledger[k])

\* ------------------------------------------------------------------ C10
\* The amount of the leading active bid of item i, 0 if there is none.
leader_amount(i) ==
  LET S == {bids[k].amount : k \in {j \in 1..Len(bids) :
                                     bids[j].item = i /\ bids[j].is_active}}
  IN IF S = {} THEN 0 ELSE Max(S)

\* C10: inside its atomic section place_bid lets a bid of amount a through
\* exactly when a >= starting_price and a >= leader + 1.00 for the leader
\* read there: a bid equal to leader + 1.00 passes, a smaller one is
\* rejected; and every Bid row created went through that test.
C10_MinimumBid ==
  [][\A p \in Procs :
       /\ (proc[p].pc = "pb_lock_item" /\ proc'[p].pc # "pb_lock_item")
            => LET a == proc[p].a
                   lead == leader_amount(proc[p].i)
                   admitted == /\ a >= StartingPrice
                               /\ lead > 0 => a >= lead + MinIncrement
               IN IF admitted THEN proc'[p].pc = "pb_lock_wallet"
                  ELSE proc'[p].pc = "ret" /\ bids' = bids
       /\ (Len(bids') > Len(bids))
            => \E q \in Procs :
                 /\ proc[q].pc = "pb_commit"
                 /\ bids'[Len(bids')].amount = proc[q].a]_vars

\* A bid of exactly the leader's amount plus the increment was accepted.
C10_Witness ==
  \E k, j \in 1..Len(bids) :
    /\ k < j /\ bids[k].item = bids[j].item
    /\ bids[j].amount = bids[k].amount + MinIncrement
    /\ \A m \in 1..Len(bids) : bids[m].amount <= bids[j].amount


\* ------------------------------------------------------------------ C11
\* Concurrent place_bid requests and nothing else.
NextBid == Bidding \/ Time

SpecBid == Init /\ [][NextBid]_vars

\* C11: under any interleaving of place_bid requests the Bid rows of an
\* item, in commit order, have strictly increasing amounts, each at least
\* the one before plus the minimum increment, and none below the starting
\* price: two requests are never both admitted against the same leader.
C11_IncreasingBids ==
  \A j \in 1..Len(bids) :
    /\ bids[j].amount >= StartingPrice
    /\ \A k \in 1..(j - 1) :
         bids[k].item = bids[j].item
           => bids[j].amount >= bids[k].amount + MinIncrement

\* A request that passed its checks against an earlier leader waits for the
\* item lock while a bid it does not outbid has been committed.
C11_Witness ==
  \E p \in Procs :
    /\ proc[p].pc = "pb_lock_item"
    /\ \E k \in 1..Len(bids) :
         /\ bids[k].item = proc[p].i
         /\ proc[p].a < bids[k].amount + MinIncrement


\* ------------------------------------------------------------------ C12
\* C12: place_bid rejects a bid whose extra funds exceed the balance
\* available under the wallet lock, and consequently in every reachable
\* state the active holds of a user together never exceed the user's
\* wallet balance.
C12_HoldsWithinBalance ==
  \A u \in Users :
    SumAmounts(holds, {k \in 1..Len(holds) :
                         holds[k].user = u /\ holds[k].status = "active"})
      <= wallet[u]


\* ------------------------------------------------------------------ C13
\* C13: on an unsettled item with a current leader (the highest active
\* bid), once no presence_ping is between its writes, the leader's bidder
\* has an active hold on the item whose amount is the leading bid's amount,
\* and no other user has an active hold on the item.
C13_LeaderHoldsTheBid ==
  \A i \in Items :
    LET h == highest_bid(bids, i)
    IN (/\ h # 0
        /\ ~item[i].is_settled
        /\ \A p \in Procs : proc[p].op # "presence_ping" \/ proc[p].pc = "ret")
         => /\ active_hold(holds, bids[h].bidder, i) # 0
            /\ holds[active_hold(holds, bids[h].bidder, i)].amount
                 = bids[h].amount
            /\ \A u \in People \ {bids[h].bidder} :
                 active_hold(holds, u, i) = 0


\* ------------------------------------------------------------------ C14
\* C14: when place_bid commits a bid of B over the leader A it read, A
\* another user with an active hold on the item, then in that same commit
\* A's hold becomes 'released', exactly one hold_release WalletTransaction
\* is written for A with the released amount, A's available balance rises
\* by that amount and A's wallet balance is unchanged.
C14_OutbidHoldReleased ==
  [][\A p \in Procs :
       (/\ proc[p].pc = "pb_commit"
        /\ Len(bids') = Len(bids) + 1
        /\ proc[p].lead # 0
        /\ bids[proc[p].lead].bidder # proc[p].u
        /\ active_hold(holds, bids[proc[p].lead].bidder, proc[p].i) # 0)
         => LET A == bids[proc[p].lead].bidder
                ha == active_hold(holds, A, proc[p].i)
                new == {k \in (Len(wtx) + 1)..Len(wtx') :
                          wtx'[k].user = A /\ wtx'[k].kind = "hold_release"}
            IN /\ holds'[ha].status = "released"
               /\ Cardinality(new) = 1
               /\ \A k \in new : /\ wtx'[k].amount = holds[ha].amount
                                 /\ wtx'[k].item = proc[p].i
               /\ get_available_balance(wallet', holds', A)
                    = get_available_balance(wallet, holds, A) + holds[ha].amount
               /\ wallet'[A] = wallet[A]]_vars

\* A bid of B stands over A's bid, A's hold is released and recorded.
C14_Witness ==
  \E k \in 1..Len(holds), j \in 1..Len(bids), n \in 1..Len(wtx) :
    /\ holds[k].status = "released"
    /\ bids[j].item = holds[k].item
    /\ bids[j].bidder # holds[k].user
    /\ bids[j].is_active
    /\ bids[j].amount > holds[k].amount
    /\ wtx[n].kind = "hold_release"
    /\ wtx[n].user = holds[k].user
    /\ wtx[n].amount = holds[k].amount
    /\ \A m \in 1..Len(payments) : payments[m].purpose # "penalty"
    /\ \E q \in Procs : /\ proc[q].op = "place_bid"
                        /\ proc[q].pc = "ret"
                        /\ proc[q].ret = "ok"


\* ------------------------------------------------------------------ C15
\* The commit of a settlement that found the winner's active hold: the hold
\* becomes 'consumed', the winner's balance drops by the hold's amount, one
\* hold_consume WalletTransaction of that amount is written, one Order for
\* the winner at the winning bid's amount is created, the item is settled,
\* one ledger block of the given type is appended, and no other wallet
\* changes.
settlement_effects(type) ==
  \A p \in Procs :
    (proc[p].pc = "sa_commit" /\ proc'[p].pc # "sa_commit" /\ proc[p].hold # 0)
      => LET i == proc[p].i
             b == bids[proc[p].lead]
             h == proc[p].hold
             new == {k \in (Len(wtx) + 1)..Len(wtx') :
                       wtx'[k].kind = "hold_consume"}
         IN /\ holds[h].status = "active"
            /\ holds[h].user = b.bidder
            /\ holds'[h].status = "consumed"
            /\ wallet'[b.bidder] = wallet[b.bidder] - holds[h].amount
            /\ Cardinality(new) = 1
            /\ \A k \in new : /\ wtx'[k].user = b.bidder
                              /\ wtx'[k].amount = holds[h].amount
            /\ Len(orders') = Len(orders) + 1
            /\ orders'[Len(orders')].buyer = b.bidder
            /\ orders'[Len(orders')].item = i
            /\ orders'[Len(orders')].amount = b.amount
            /\ item'[i].is_settled
            /\ Len(ledger') = Len(ledger) + 1
            /\ ledger'[Len(ledger')].data[1] = type
            /\ ledger'[Len(ledger')].data[2] = i
            /\ \A u \in Users \ {b.bidder} : wallet'[u] = wallet[u]

\* C15 as stated: the settlement's ledger block records order_paid.
C15_Original == [][settlement_effects("order_paid")]_vars

\* C15 amended: a settlement that finds the winner's active hold consumes
\* it, debits the winner by the hold's amount, writes one hold_consume
\* WalletTransaction, creates the winner's Order at the winning bid's
\* amount, settles the item and appends a ledger block of type
\* auction_settled; no other user's wallet changes.
C15_SettlementEffects == [][settlement_effects("auction_settled")]_vars

\* A settlement has consumed the winner's hold and returned.
C15_Witness ==
  \E p \in Procs, k \in 1..Len(holds) :
    /\ proc[p].op \in SettleOps
    /\ proc[p].pc = "ret"
    /\ proc[p].ret = "True"
    /\ holds[k].status = "consumed"
    /\ holds[k].item = proc[p].i
    /\ item[proc[p].i].is_settled


\* ------------------------------------------------------------------ C16
\* C16: a settle attempt on an item whose ends_at is in the future changes
\* nothing, so an item is never settled, and no Order exists for it, while
\* its auction has not ended.
C16_NotSettledBeforeEnd ==
  \A i \in Items :
    ~ended[i] => /\ ~item[i].is_settled
                 /\ \A k \in 1..Len(orders) : orders[k].item # i


\* ------------------------------------------------------------------ C17
\* C17: when settle_auction_item finds no active bid on an ended, unsettled
\* item it marks the item is_settled = true and is_active = false and
\* returns true, creating no Order and changing no wallet.
C17_NoBidSettles ==
  [][\A p \in Procs :
       (/\ proc[p].pc = "sa_lock"
        /\ proc'[p].pc # "sa_lock"
        /\ ended[proc[p].i]
        /\ ~item[proc[p].i].is_settled
        /\ highest_bid(bids, proc[p].i) = 0)
         => /\ item'[proc[p].i].is_settled
            /\ ~item'[proc[p].i].is_active
            /\ proc'[p].ret = "True"
            /\ orders' = orders
            /\ wallet' = wallet]_vars


\* ------------------------------------------------------------------ C18
\* An Order of the item for the user exists.
has_order(i, u) ==
  \E k \in 1..Len(orders) : orders[k].item = i /\ orders[k].buyer = u

\* C18: settlement is all-or-nothing.  A consumed hold, or a wallet debit
\* (a hold_consume WalletTransaction), exists only with its item settled
\* and the Order of that user for that item; and a settled item that has a
\* highest active bid has an Order.
C18_AllOrNothing ==
  /\ \A k \in 1..Len(holds) :
       holds[k].status = "consumed"
         => item[holds[k].item].is_settled /\ has_order(holds[k].item, holds[k].user)
  /\ \A k \in 1..Len(wtx) :
       wtx[k].kind = "hold_consume"
         => item[wtx[k].item].is_settled /\ has_order(wtx[k].item, wtx[k].user)
  /\ \A i \in Items :
       (item[i].is_settled /\ highest_bid(bids, i) # 0)
         => \E k \in 1..Len(orders) : orders[k].item = i


\* ------------------------------------------------------------------ C19
\* C19: once an item is settled no step creates a Bid for it, creates a
\* WalletHold for it or raises the amount of one of its holds.
C19_NoBidAfterSettlement ==
  [][\A i \in Items :
       item[i].is_settled
         => /\ \A k \in (Len(bids) + 1)..Len(bids') : bids'[k].item # i
            /\ \A k \in (Len(holds) + 1)..Len(holds') : holds'[k].item # i
            /\ \A k \in 1..Len(holds) :
                 holds[k].item = i => holds'[k].amount <= holds[k].amount]_vars


\* ------------------------------------------------------------------ C20
\* C20: in every reachable state a settled item is inactive, and no step
\* takes an item from is_settled = true back to false.
C20_SettledIsTerminal ==
  /\ [](\A i \in Items : item[i].is_settled => ~item[i].is_active)
  /\ [][\A i \in Items : item[i].is_settled => item'[i].is_settled]_vars

\* The item is settled and inactive, and a later request on it has been
\* served: a settle request turned away, or a bid stored after settlement.
C20_Witness ==
  \E p \in Procs, i \in Items :
    /\ item[i].is_settled
    /\ ~item[i].is_active
    /\ proc[p].pc = "ret"
    /\ \/ proc[p].op = "settle" /\ proc[p].ret = "AlreadySettled" /\ proc[p].i = i
       \/ proc[p].op = "place_bid" /\ proc[p].ret = "ok"


\* ------------------------------------------------------------------ C21
\* C21: a WalletHold changes status only from 'active', to 'released' or
\* 'consumed'; it becomes 'consumed' only in the commit of a settlement of
\* its item, for the bidder of the bid that settlement selected; and at
\* most one hold of an item is ever consumed (one hold_consume row).
C21_HoldLifecycle ==
  /\ [][\A k \in 1..Len(holds) :
          holds'[k].status # holds[k].status
            => /\ holds[k].status = "active"
               /\ holds'[k].status \in {"released", "consumed"}
               /\ holds'[k].status = "consumed"
                    => \E p \in Procs :
                         /\ proc[p].pc = "sa_commit"
                         /\ proc'[p].pc = "ret"
                         /\ proc[p].i = holds[k].item
                         /\ bids[proc[p].lead].bidder = holds[k].user]_vars
  /\ [](\A i \in Items :
          Cardinality({k \in 1..Len(wtx) :
                         wtx[k].kind = "hold_consume" /\ wtx[k].item = i}) <= 1)


\* ------------------------------------------------- bids created directly
\* tests.py:35: Bid.objects.create(item, bidder, amount, is_active=True)
\* outside any view: no minimum, no hold.  Rows are in created_at order.
CreatedAmounts == {100, 150}

Bid_create(u, i, a) ==
  /\ Len(bids) < MaxBids
  /\ bids' = Append(bids, [item |-> i, bidder |-> u, amount |-> a,
                           is_active |-> TRUE])
  /\ UNCHANGED <<item, ended, part, wallet, holds, wtx, orders, payments,
                 txlog, ledger, proc, locks, ops>>

\* The three readers of the leader over such a table: place_bid up to its
\* read at views.py:245, presence_ping up to its bulk deactivation
\* (views.py:765-782), settle_auction_item up to its read at utils.py:174.
NextLeader ==
  \/ \E u \in Users, i \in Items, a \in CreatedAmounts : Bid_create(u, i, a)
  \/ \E p \in Procs, u \in Users, i \in Items, a \in BidAmounts,
        market_open \in BOOLEAN : pb_start(p, u, i, a, market_open)
  \/ \E p \in Procs : pb_lock_item(p)
  \/ \E p \in Procs, u \in Users, i \in Items : pp_start(p, u, i)
  \/ \E p \in Procs : pp_penalize(p)
  \/ \E p \in Procs, i \in Items : sa_call(p, i)
  \/ \E p \in Procs : sa_lock(p)
  \/ \E p \in Procs : respond(p)
  \/ \E i \in Items, u \in Users : go_offline(i, u)

SpecLeader == Init /\ [][NextLeader]_vars

\* ------------------------------------------------------------------ C22
\* Row k is the leader of item i: an active bid of the item, no active bid
\* of the item has a higher amount, and none of the same amount is earlier.
is_leader(bs, i, k) ==
  /\ k \in 1..Len(bs)
  /\ bs[k].item = i
  /\ bs[k].is_active
  /\ \A j \in 1..Len(bs) :
       (bs[j].item = i /\ bs[j].is_active)
         => \/ bs[j].amount < bs[k].amount
            \/ (bs[j].amount = bs[k].amount /\ k <= j)

\* C22: the bid that place_bid, presence_ping or settle_auction_item
\* selects as leader is the active bid of the item with the highest amount,
\* the earliest created among equals, never an inactive one; and three
\* active bids of 1.00, 1.50, 1.50 in time order have the second as leader.
C22_LeaderRule ==
  /\ [][\A p \in Procs :
          (proc'[p].lead # 0 /\ proc[p].lead = 0)
            => /\ proc'[p].op \in {"place_bid", "presence_ping",
                                   "settle_auction_item"}
               /\ is_leader(bids, proc'[p].i, proc'[p].lead)]_vars
  /\ [](\A i \in Items :
          (/\ Len(bids) = 3
           /\ \A k \in 1..3 : bids[k].item = i /\ bids[k].is_active
           /\ bids[1].amount = 100 /\ bids[2].amount = 150
           /\ bids[3].amount = 150)
            => highest_bid(bids, i) = 2)

\* A settlement has selected the earlier of two active bids of the same,
\* highest amount while an inactive bid of the item exists.
C22_Witness ==
  \E p \in Procs, j \in 1..Len(bids), n \in 1..Len(bids) :
    /\ proc[p].op = "settle_auction_item"
    /\ proc[p].pc = "sa_hold"
    /\ proc[p].lead # 0
    /\ j > proc[p].lead
    /\ bids[j].item = proc[p].i
    /\ bids[j].is_active
    /\ bids[j].amount = bids[proc[p].lead].amount
    /\ bids[n].item = proc[p].i
    /\ ~bids[n].is_active


\* ------------------------------------------------- a user without a row
\* The state of Init, except that B has never opened item x: B has no
\* AuctionParticipant row for it (the row is made by get_or_create in
\* place_bid, book_seat, presence_ping).
InitGuest ==
  /\ item = [i \in Items |-> [is_active |-> TRUE, is_settled |-> FALSE]]
  /\ ended = [i \in Items |-> FALSE]
  /\ part = [i \in Items |-> [u \in People |->
               IF u = Owner THEN Participant(TRUE, FALSE, "never")
               ELSE IF u = "B" THEN Participant(FALSE, FALSE, "never")
               ELSE Participant(TRUE, TRUE, "fresh")]]
  /\ bids = <<>>
  /\ wallet = [u \in Users |-> InitialBalance(u)]
  /\ holds = <<>>
  /\ wtx = <<WTx("A", "-", "credit", 100, 100), WTx("B", "-", "credit", 300, 300)>>
  /\ orders = <<>>
  /\ payments = <<Payment("A", "-", "recharge", 200),
                  Payment("A", "-", "recharge", 100)>>
  /\ txlog = <<>>
  /\ ledger = <<>>
  /\ proc = [p \in Procs |-> Idle]
  /\ locks = [p \in Procs |-> NoLocks]
  /\ ops = 0

SpecGuest == InitGuest /\ [][NextBid]_vars

\* ------------------------------------------------------------------ C23
ValidationReasons ==
  {"OwnerCannotBid", "BiddingClosed", "SeatNotBooked", "PenaltyDue",
   "InsufficientParticipants", "BidTooLow", "BidUnreasonablyHigh",
   "InsufficientFunds"}

\* C23: the step in which place_bid rejects a request for a validation
\* reason changes no row of any table: Bid, WalletHold, WalletTransaction,
\* LedgerBlock, Wallet, AuctionParticipant.
C23_RejectionChangesNothing ==
  [][\A p \in Procs :
       (/\ proc[p].pc # "ret"
        /\ proc'[p].pc = "ret"
        /\ proc'[p].op = "place_bid"
        /\ proc'[p].ret \in ValidationReasons)
         => db' = db]_vars


\* ------------------------------------------------- holds on a second item
\* An item of another auction: holds on it are created directly
\* (tests.py:31) and no request of the model addresses it.
OtherItems == {"y"}

NextWallet ==
  \/ Bidding \/ Settling \/ Time
  \/ \E u \in Users, i \in Items \cup OtherItems, a \in {100} :
       WalletHold_create(u, i, a)

SpecWallet == Init /\ [][NextWallet]_vars

\* ------------------------------------------------------------------ C24
\* The amounts of the first n hold rows that belong to u and are 'active',
\* added row by row.
RECURSIVE active_total(_, _, _)
active_total(hs, u, n) ==
  IF n = 0 THEN 0
  ELSE active_total(hs, u, n - 1)
         + (IF hs[n].user = u /\ hs[n].status = "active" THEN hs[n].amount
            ELSE 0)

\* C24: get_available_balance(user) is the user's wallet balance minus the
\* amounts of exactly that user's 'active' holds over all items; released
\* and consumed holds and other users' holds do not reduce it.
C24_AvailableBalance ==
  \A u \in Users :
    get_available_balance(wallet, holds, u)
      = wallet[u] - active_total(holds, u, Len(holds))

\* A user has active holds on two items, a hold that is no longer active
\* exists, and the available balance is the balance less the two holds.
C24_Witness ==
  \E u \in Users, j \in 1..Len(holds), k \in 1..Len(holds), n \in 1..Len(holds) :
    /\ holds[j].user = u /\ holds[j].status = "active"
    /\ holds[k].user = u /\ holds[k].status = "active"
    /\ holds[j].item # holds[k].item
    /\ holds[n].status # "active"
    /\ get_available_balance(wallet, holds, u)
         = wallet[u] - holds[j].amount - holds[k].amount


\* ------------------------------------------------- scheduled settlement
\* settle_auctions.py:15-26 run by a scheduler, again and again: the run
\* takes an active, unsettled, ended item and calls settle_auction_item.
cmd_periodic(p, i) ==
  /\ Free(p)
  /\ item[i].is_active /\ ~item[i].is_settled /\ ended[i]
  /\ proc' = [proc EXCEPT ![p] =
        [Idle EXCEPT !.op = "settle_auction_item", !.pc = "sa_lock", !.i = i]]
  /\ UNCHANGED <<db, ended, locks, ops>>

\* The steps of settle_auction_item after its call.
sa_step(p) ==
  \/ sa_lock(p) \/ sa_hold(p) \/ sa_wallet(p) \/ sa_item(p) \/ sa_others(p)
  \/ sa_commit(p)

\* The steps of place_bid after its pre-checks.
pb_step(p) ==
  \/ pb_lock_item(p) \/ pb_lock_wallet(p) \/ pb_lock_hold(p) \/ pb_lock_prev(p)
  \/ \E tx_id_is_str \in BOOLEAN : pb_commit(p, tx_id_is_str)

\* The row locks the next step of p asks for (views.py:244, 254-256, 293;
\* utils.py:190, 199, 222, 225).
wants(p) ==
  LET u == proc[p].u
      i == proc[p].i
      o == pb_previous(bids, proc[p].lead, u)
      w == IF proc[p].lead = 0 THEN "-" ELSE bids[proc[p].lead].bidder
  IN CASE proc[p].pc = "pb_lock_item" -> [NoLocks EXCEPT !.item = {i}]
       [] proc[p].pc = "pb_lock_wallet" -> [NoLocks EXCEPT !.wallet = {u}]
       [] proc[p].pc = "pb_lock_hold" ->
            [NoLocks EXCEPT !.hold = {active_hold(holds, u, i)} \ {0}]
       [] proc[p].pc = "pb_lock_prev" ->
            [NoLocks EXCEPT !.hold =
               IF o = "-" THEN {} ELSE {active_hold(holds, o, i)} \ {0}]
       [] proc[p].pc = "sa_hold" ->
            [NoLocks EXCEPT !.hold = {active_hold(holds, w, i)} \ {0}]
       [] proc[p].pc = "sa_wallet" -> [NoLocks EXCEPT !.wallet = {w}]
       [] proc[p].pc = "sa_item" -> [NoLocks EXCEPT !.item = {i}]
       [] proc[p].pc = "sa_others" ->
            [NoLocks EXCEPT !.hold = other_holds(holds, i, w)]
       [] OTHER -> NoLocks

waits_for(p, q) ==
  \/ wants(p).item \cap locks[q].item # {}
  \/ wants(p).wallet \cap locks[q].wallet # {}
  \/ wants(p).hold \cap locks[q].hold # {}

\* Two transactions wait for each other's row locks: the database aborts
\* one of them, whose atomic block is rolled back by the exception.
deadlock_victim(p) ==
  /\ \E q \in Procs \ {p} : waits_for(p, q) /\ waits_for(q, p)
  /\ proc' = [proc EXCEPT ![p] =
        Returned(proc[p].op,
                 IF proc[p].op \in {"settle", "settle_auction_item"}
                 THEN proc[p].i ELSE "-", "OperationalError")]
  /\ locks' = Release(p)
  /\ UNCHANGED <<db, ended, ops>>

NextCron ==
  \/ \E p \in Procs, u \in Users, i \in Items, a \in BidAmounts,
        market_open \in BOOLEAN : pb_start(p, u, i, a, market_open)
  \/ \E p \in Procs : pb_step(p)
  \/ \E p \in Procs, i \in Items : cmd_periodic(p, i)
  \/ \E p \in Procs : sa_step(p)
  \/ \E p \in Procs : deadlock_victim(p)
  \/ Time

\* Every request that has started runs to its response (a transaction that
\* waits for a row lock gets it once it is free again and again), a
\* deadlock is broken, and the scheduled command is started again and again for as long
\* as it has an item to take.
FairCron ==
  /\ \A p \in Procs : SF_vars(pb_step(p) \/ sa_step(p) \/ respond(p))
  /\ WF_vars(\E p \in Procs : deadlock_victim(p))
  /\ \A i \in Items : SF_vars(\E p \in Procs : cmd_periodic(p, i))

SpecCron == Init /\ [][NextCron]_vars /\ FairCron

\* ------------------------------------------------------------------ C25
\* C25: with settlement invoked again and again, every item whose auction
\* has ended is eventually settled.
C25_EndedIsSettled ==
  \A i \in Items : ended[i] ~> item[i].is_settled


\* ------------------------------------------------------ Bid.tx_id
\* A value of uuid.uuid4(): 32 hexadecimal digits, the 13th being the
\* version digit 4.  Three values stand for the 2^122 possible ones, so
\* that a draw can repeat an earlier one.
uuid_of(c) == [k \in 1..32 |-> IF k = 13 THEN "4" ELSE c]
Uuids == {uuid_of("a"), uuid_of("b"), uuid_of("c")}

\* str(uuid.UUID): the digits in groups of 8-4-4-4-12 joined by hyphens,
\* which is what CharField stores for tx_id.
str_uuid(v) ==
  SubSeq(v, 1, 8) \o <<"-">> \o SubSeq(v, 9, 12) \o <<"-">>
    \o SubSeq(v, 13, 16) \o <<"-">> \o SubSeq(v, 17, 20) \o <<"-">>
    \o SubSeq(v, 21, 32)

\* The Bid table without the unique index on tx_id.
tx_id_unconstrained(bs) == TRUE

\* models.py:54, unique=True: no two rows have the same tx_id.
tx_id_unique(bs) ==
  \A k, j \in 1..Len(bs) : bs[k].tx_id = bs[j].tx_id => k = j

\* Bid.objects.create (tests.py:35, views.py:306) with the row's tx_id:
\* the default draws v, the INSERT stores str(v) and is refused with
\* IntegrityError when the unique index would be broken.
Bid_insert(u, i, a, v) ==
  /\ Len(bids) < MaxBids
  /\ LET bs == Append(bids, [item |-> i, bidder |-> u, amount |-> a,
                             is_active |-> TRUE, tx_id |-> str_uuid(v)])
     IN bids' = IF tx_id_unique(bs) THEN bs ELSE bids
  /\ UNCHANGED <<item, ended, part, wallet, holds, wtx, orders, payments,
                 txlog, ledger, proc, locks, ops>>

NextTx ==
  \E u \in Users, i \in Items, a \in CreatedAmounts, v \in Uuids :
    Bid_insert(u, i, a, v)

SpecTx == Init /\ [][NextTx]_vars

\* ------------------------------------------------------------------ C26
\* C26: the tx_id stored with every Bid is a string of 36 characters, and
\* no two Bid rows have the same tx_id.
C26_TxIdUnique36 ==
  \A k \in 1..Len(bids) :
    /\ Len(bids[k].tx_id) = 36
    /\ \A j \in 1..Len(bids) : bids[j].tx_id = bids[k].tx_id => j = k

\* Three bids are stored, each with another of the three values; on the way
\* every draw that repeated a stored value was refused.
C26_Witness ==
  /\ Len(bids) = 3
  /\ \A v \in Uuids : \E k \in 1..Len(bids) : bids[k].tx_id = str_uuid(v)


\* ------------------------------------------------------------------ C27
\* C27: an Order has status 'paid' only if its amount was secured from the
\* buyer by the settlement that created it, that is, a hold_consume
\* WalletTransaction of that user for that item exists; otherwise the
\* Order has status 'created'.
C27_PaidMeansSecured ==
  \A k \in 1..Len(orders) :
    orders[k].status = "paid"
      => \E n \in 1..Len(wtx) :
           /\ wtx[n].kind = "hold_consume"
           /\ wtx[n].user = orders[k].buyer
           /\ wtx[n].item = orders[k].item


\* ------------------------------------------------------------------ C28
\* C28: settlement never takes a wallet below zero, and an Order made
\* without consuming a hold of the winner (no hold, or a balance below the
\* hold's amount) comes with a Payment of purpose 'order' for that buyer
\* and item, completed via bank or left pending.
C28_FallbackPayment ==
  /\ \A u \in Users : wallet[u] >= 0
  /\ \A k \in 1..Len(orders) :
       (\A n \in 1..Len(wtx) :
          ~(/\ wtx[n].kind = "hold_consume"
            /\ wtx[n].user = orders[k].buyer
            /\ wtx[n].item = orders[k].item))
         => \E m \in 1..Len(payments) :
              /\ payments[m].purpose = "order"
              /\ payments[m].buyer = orders[k].buyer
              /\ payments[m].item = orders[k].item


\* ------------------------------------------------------------------ C29
\* C29: the commit of a settlement releases every active hold of the item
\* that is not the winner's, and writes one hold_release WalletTransaction
\* of the hold's amount for the user of each hold it releases.
C29_ReleasesAreRecorded ==
  [][\A p \in Procs :
       (proc[p].pc = "sa_commit" /\ proc'[p].pc = "ret")
         => \A k \in other_holds(holds, proc[p].i, bids[proc[p].lead].bidder) :
              /\ holds'[k].status = "released"
              /\ Cardinality({n \in (Len(wtx) + 1)..Len(wtx') :
                                /\ wtx'[n].kind = "hold_release"
                                /\ wtx'[n].user = holds[k].user
                                /\ wtx'[n].item = holds[k].item
                                /\ wtx'[n].amount = holds[k].amount}) = 1]_vars


\* ------------------------------------------------------------------ C30
\* C30: a user is never charged twice for one offline episode (at most one
\* unprocessed penalty Payment per user and item), and once the
\* presence_ping requests that penalise have finished, a user with
\* penalty_due on an item has no active bid and no active hold on it.
C30_PenaltyOnce ==
  \A i \in Items, u \in Users :
    /\ Cardinality({m \in 1..Len(payments) :
                      /\ payments[m].purpose = "penalty"
                      /\ payments[m].buyer = u
                      /\ payments[m].item = i
                      /\ ~payments[m].processed}) <= 1
    /\ (/\ part[i][u].penalty_due
        /\ \A p \in Procs : proc[p].op # "presence_ping" \/ proc[p].pc = "ret")
         => /\ \A k \in 1..Len(bids) :
                 ~(bids[k].item = i /\ bids[k].bidder = u /\ bids[k].is_active)
            /\ active_hold(holds, u, i) = 0


\* ------------------------------------------------------------------ C31
\* models.py:43-45, participants_count: rows with is_booked and no
\* unbooked_at.
seat_holders(pt, i) ==
  Cardinality({u \in People :
                 pt[i][u].row /\ pt[i][u].is_booked /\ ~pt[i][u].unbooked})

\* C31: a Bid is created for an item only while at least two participants
\* of the item hold a booked seat; rows without a booked seat do not count.
C31_TwoSeatHolders ==
  [][\A k \in (Len(bids) + 1)..Len(bids') :
       seat_holders(part, bids'[k].item) >= 2]_vars

\* ------------------------------------------------------- payment providers
\* views.py:379: google_pay_start loads the whole Payment row.
google_pay_start(p, k) ==
  /\ Free(p)
  /\ ops < MaxOps
  /\ k \in 1..Len(payments)
  /\ ops' = ops + 1
  /\ proc' = [proc EXCEPT ![p] =
       [Idle EXCEPT !.op = "google_pay_start", !.pc = "gps_save", !.pay = k,
                    !.obj = payments[k]]]
  /\ UNCHANGED <<db, ended, locks>>

\* views.py:381-385: status = 'processing' and save() of every column of the
\* loaded object, whatever the row holds by now; then the redirect.
gps_save(p) ==
  /\ proc[p].pc = "gps_save"
  /\ payments' = [payments EXCEPT ![proc[p].pay] =
                    [proc[p].obj EXCEPT !.status = "processing"]]
  /\ proc' = [proc EXCEPT ![p] = Returned("google_pay_start", "-", "redirect")]
  /\ UNCHANGED <<item, ended, part, bids, wallet, holds, wtx, orders, txlog,
                 ledger, locks, ops>>

\* views.py:390-433: bank_pay_start writes provider = 'bank' and
\* status = 'pending' (update_fields) on the payment it loads.
bank_pay_start(p, k) ==
  /\ Free(p)
  /\ ops < MaxOps
  /\ k \in 1..Len(payments)
  /\ ops' = ops + 1
  /\ payments' = [payments EXCEPT ![k].provider = "bank",
                                  ![k].status = "pending"]
  /\ proc' = [proc EXCEPT ![p] = Returned("bank_pay_start", "-", "200")]
  /\ UNCHANGED <<item, ended, part, bids, wallet, holds, wtx, orders, txlog,
                 ledger, locks>>

\* utils.py:76-79 as called by a view that has just saved the payment it
\* loaded: processed_at is the one of the loaded object.
ap_call(k, pay) ==
  IF pay.processed
  THEN Returned("apply_payment_effects", "-", "None")
  ELSE [Idle EXCEPT !.op = "apply_payment_effects", !.pc = "ap_read",
                    !.pay = k, !.u = pay.buyer, !.i = pay.item,
                    !.a = pay.amount]

\* views.py:437-450: a POST with a reference saves status = 'succeeded' and
\* applies the effects; a GET or an empty reference redirects.
bank_pay_confirm(p, k, reference) ==
  /\ Free(p)
  /\ ops < MaxOps
  /\ k \in 1..Len(payments)
  /\ ops' = ops + 1
  /\ payments' = IF reference
                 THEN [payments EXCEPT ![k].status = "succeeded"]
                 ELSE payments
  /\ proc' = [proc EXCEPT ![p] =
       IF reference THEN ap_call(k, payments[k])
       ELSE Returned("bank_pay_confirm", "-", "redirect")]
  /\ UNCHANGED <<item, ended, part, bids, wallet, holds, wtx, orders, txlog,
                 ledger, locks>>

\* views.py:863-870: crypto_pay_confirm loads the payment; another provider
\* or a missing tx_hash redirects.
cpc_load(p, k, tx_hash) ==
  /\ Free(p)
  /\ ops < MaxOps
  /\ k \in 1..Len(payments)
  /\ ops' = ops + 1
  /\ proc' = [proc EXCEPT ![p] =
       IF payments[k].provider = "blockchain" /\ tx_hash
       THEN [Idle EXCEPT !.op = "crypto_pay_confirm", !.pc = "cpc_save",
                         !.pay = k, !.obj = payments[k]]
       ELSE Returned("crypto_pay_confirm", "-", "redirect")]
  /\ UNCHANGED <<db, ended, locks>>

\* views.py:878-879: the status crypto_pay_confirm saves, given the result of
\* validate_native_transfer (blockchain.py:62-93): 'ok' is receipt status,
\* amount and recipient, 'confirmed' is confirmations >= min_confirmations.
cpc_status(status, ok, confirmed) ==
  IF ok THEN (IF confirmed THEN "succeeded" ELSE "processing") ELSE status

\* views.py:873-898: the save (update_fields with 'status') of the loaded
\* object and, when the transfer is valid, apply_payment_effects.
cpc_save(p, ok, confirmed) ==
  /\ proc[p].pc = "cpc_save"
  /\ LET k == proc[p].pay
     IN /\ payments' = [payments EXCEPT ![k].status =
                          cpc_status(proc[p].obj.status, ok, confirmed)]
        /\ proc' = [proc EXCEPT ![p] =
             IF ok THEN ap_call(k, proc[p].obj)
             ELSE Returned("crypto_pay_confirm", "-", "redirect")]
  /\ UNCHANGED <<item, ended, part, bids, wallet, holds, wtx, orders, txlog,
                 ledger, locks, ops>>

\* A recharge of A through Google Pay and one of B on the blockchain have
\* been started (views.py:994-1001).
InitPay ==
  /\ item = [i \in Items |-> [is_active |-> TRUE, is_settled |-> FALSE]]
  /\ ended = [i \in Items |-> FALSE]
  /\ part = [i \in Items |-> [u \in People |->
               IF u = Owner THEN Participant(TRUE, FALSE, "never")
               ELSE Participant(TRUE, TRUE, "fresh")]]
  /\ bids = <<>>
  /\ wallet = [u \in Users |-> InitialBalance(u)]
  /\ holds = <<>>
  /\ wtx = <<WTx("A", "-", "credit", 100, 100), WTx("B", "-", "credit", 300, 300)>>
  /\ orders = <<>>
  /\ payments = <<Payment("A", "-", "recharge", 200),
                  [Payment("B", "-", "recharge", 100)
                     EXCEPT !.provider = "blockchain"]>>
  /\ txlog = <<>>
  /\ ledger = <<>>
  /\ proc = [p \in Procs |-> Idle]
  /\ locks = [p \in Procs |-> NoLocks]
  /\ ops = 0

NextPay ==
  \/ \E p \in Procs, k \in PaymentIds : google_pay_start(p, k)
  \/ \E p \in Procs : gps_save(p)
  \/ \E p \in Procs, k \in PaymentIds : bank_pay_start(p, k)
  \/ \E p \in Procs, k \in PaymentIds, reference \in BOOLEAN :
       bank_pay_confirm(p, k, reference)
  \/ \E p \in Procs, k \in PaymentIds, tx_hash \in BOOLEAN :
       cpc_load(p, k, tx_hash)
  \/ \E p \in Procs, ok \in BOOLEAN, confirmed \in BOOLEAN :
       cpc_save(p, ok, confirmed)
  \/ \E p \in Procs, k \in PaymentIds : google_pay_callback(p, k)
  \/ \E p \in Procs : ap_read(p)
  \/ \E p \in Procs : ap_write(p)
  \/ \E p \in Procs : respond(p)

SpecPay == InitPay /\ [][NextPay]_vars

\* C32: a payment that has succeeded, or whose effects are recorded as
\* applied, is never given the status 'pending' or 'processing' again.
C32_StatusMovesForward ==
  [][\A k \in 1..Len(payments) :
       (payments[k].status = "succeeded" \/ payments[k].processed)
         => payments'[k].status \notin {"pending", "processing"}]_vars

\* C33: row locks are taken in the order item, wallet, hold: a transaction
\* that takes an item lock holds no wallet or hold lock, and one that takes
\* a wallet lock holds no hold lock.
C33_LockOrder ==
  [][\A p \in Procs :
       /\ locks'[p].item # locks[p].item /\ locks'[p].item # {}
            => locks[p].wallet = {} /\ locks[p].hold = {}
       /\ locks'[p].wallet # locks[p].wallet /\ locks'[p].wallet # {}
            => locks[p].hold = {}]_vars

C35_NoActiveHoldOnceSettled ==
  \A i \in Items : item[i].is_settled =>
    \A k \in 1..Len(holds) : ~(holds[k].item = i /\ holds[k].status = "active")

\* C36: every user's wallet balance is the sum of the user's 'credit'
\* WalletTransactions less the sum of the user's 'hold_consume' ones.
C36_BalanceIsCreditsLessConsumes ==
  \A u \in Users :
    wallet[u] =
      SumAmounts(wtx, {k \in 1..Len(wtx) :
                         wtx[k].user = u /\ wtx[k].kind = "credit"})
      - SumAmounts(wtx, {k \in 1..Len(wtx) :
                           wtx[k].user = u /\ wtx[k].kind = "hold_consume"})

\* ------------------------------------------------------------------ buy now
\* models.py:17: buy_now_price of the item; NULL (NoPrice) on an item listed
\* without one.
BuyNowPrice == 300
NoPrice == -1
buy_now_price(i) == IF i \in Items THEN BuyNowPrice ELSE NoPrice

\* views.py:350-374: buy_now tests buy_now_price only and creates a pending
\* 'buy_now' Payment for the requesting user.
buy_now(p, u, i) ==
  /\ Free(p)
  /\ ops < MaxOps
  /\ ops' = ops + 1
  /\ payments' = IF buy_now_price(i) = NoPrice THEN payments
                 ELSE Append(payments, Payment(u, i, "buy_now", buy_now_price(i)))
  /\ proc' = [proc EXCEPT ![p] = Returned("buy_now", "-", "redirect")]
  /\ UNCHANGED <<item, ended, part, bids, wallet, holds, wtx, orders, txlog,
                 ledger, locks>>

\* The open auction of Init, with a buy-now payment that B has started.
InitBuy ==
  /\ item = [i \in Items |-> [is_active |-> TRUE, is_settled |-> FALSE]]
  /\ ended = [i \in Items |-> FALSE]
  /\ part = [i \in Items |-> [u \in People |->
               IF u = Owner THEN Participant(TRUE, FALSE, "never")
               ELSE Participant(TRUE, TRUE, "fresh")]]
  /\ bids = <<>>
  /\ wallet = [u \in Users |-> InitialBalance(u)]
  /\ holds = <<>>
  /\ wtx = <<WTx("A", "-", "credit", 100, 100), WTx("B", "-", "credit", 300, 300)>>
  /\ orders = <<>>
  /\ payments = <<Payment("B", "x", "buy_now", buy_now_price("x"))>>
  /\ txlog = <<>>
  /\ ledger = <<>>
  /\ proc = [p \in Procs |-> Idle]
  /\ locks = [p \in Procs |-> NoLocks]
  /\ ops = 0

NextBuy ==
  \/ \E p \in Procs, u \in Users, i \in Items \cup OtherItems : buy_now(p, u, i)
  \/ Paying
  \/ Bidding
  \/ Settling
  \/ \E p \in Procs : respond(p)
  \/ \E i \in Items : auction_end(i)

SpecBuy == InitBuy /\ [][NextBuy]_vars

\* C37: no item has more than one Order with status 'paid'.
C37_OnePaidOrder ==
  \A i \in Items :
    Cardinality({k \in 1..Len(orders) :
                   orders[k].item = i /\ orders[k].status = "paid"}) <= 1

\* ------------------------------------------------------------------ seats
\* models.py:21: seat_limit of the item (0 is no limit).
seat_limit(i) == 1

\* The providers book_seat derives from ?provider= (views.py:513-518).
Providers == {"google_pay", "bank", "blockchain"}

\* views.py:499-533: book_seat.  The participant row is created before the
\* tests; a seat Payment is created when the user is not booked and the
\* booked, not-unbooked rows are fewer than seat_limit.
book_seat(p, u, i, provider) ==
  /\ Free(p)
  /\ ops < MaxOps
  /\ ops' = ops + 1
  /\ LET pt == get_or_create_participant(part, i, u)
         r == IF u = Owner THEN "OwnersCannotBook"
              ELSE IF pt[i][u].is_booked THEN "AlreadyBooked"
              ELSE IF seat_limit(i) # 0 /\ seat_holders(pt, i) >= seat_limit(i)
                   THEN "NoSeats"
              ELSE "redirect"
     IN /\ part' = IF u = Owner THEN part ELSE pt
        /\ payments' = IF r = "redirect"
                       THEN Append(payments,
                              [Payment(u, i, "seat", SeatFee)
                                 EXCEPT !.provider = provider])
                       ELSE payments
        /\ proc' = [proc EXCEPT ![p] = Returned("book_seat", "-", r)]
  /\ UNCHANGED <<item, ended, bids, wallet, holds, wtx, orders, txlog, ledger,
                 locks>>

\* views.py:538-558: unbook_seat; in_window is the test of the preview
\* minute (lines 545-548).
unbook_seat(p, u, i, in_window) ==
  /\ Free(p)
  /\ ops < MaxOps
  /\ ops' = ops + 1
  /\ LET r == IF ~part[i][u].row THEN "404"
              ELSE IF ~part[i][u].is_booked THEN "NoBookedSeat"
              ELSE IF ~in_window THEN "WindowClosed"
              ELSE "ok"
     IN /\ part' = IF r = "ok"
                   THEN [part EXCEPT ![i][u].is_booked = FALSE,
                                     ![i][u].unbooked = TRUE]
                   ELSE part
        /\ proc' = [proc EXCEPT ![p] = Returned("unbook_seat", "-", r)]
  /\ UNCHANGED <<item, ended, bids, wallet, holds, wtx, orders, payments,
                 txlog, ledger, locks>>

\* Codes a user may post: nothing, blanks, the code of a booked seat in
\* either case, and a string that is no one's code.
PostedCodes == {"", " ", "ABCD2345", "abcd2345", "ZZZZ9999"}

\* views.py:564: code.strip().upper().
strip_upper(c) ==
  CASE c = " " -> ""
    [] c = "abcd2345" -> "ABCD2345"
    [] OTHER -> c

\* models.py:68: booking_code of a row, blank until one is issued.
booking_code(row) == IF row.code THEN "ABCD2345" ELSE ""

\* views.py:568: filter(item=item, user=request.user, booking_code=code).
code_matches(row, code) == row.row /\ booking_code(row) = code

\* views.py:561-580: join_with_code (a POST).
join_with_code(p, u, i, posted) ==
  /\ Free(p)
  /\ ops < MaxOps
  /\ ops' = ops + 1
  /\ LET found == code_matches(part[i][u], strip_upper(posted))
     IN /\ part' = IF found
                   THEN [part EXCEPT ![i][u].is_booked = TRUE,
                                     ![i][u].unbooked = FALSE]
                   ELSE part
        /\ proc' = [proc EXCEPT ![p] =
             Returned("join_with_code", "-",
                      IF found THEN "CodeVerified" ELSE "InvalidCode")]
  /\ UNCHANGED <<item, ended, bids, wallet, holds, wtx, orders, payments,
                 txlog, ledger, locks>>

\* Item x as listed by S (the owner's row of views.py:152), with one seat;
\* A has opened book_seat and has a pending seat payment, B has no row.
InitSeat ==
  /\ item = [i \in Items |-> [is_active |-> TRUE, is_settled |-> FALSE]]
  /\ ended = [i \in Items |-> FALSE]
  /\ part = [i \in Items |-> [u \in People |->
               IF u = "B" THEN Participant(FALSE, FALSE, "never")
               ELSE Participant(TRUE, FALSE, "never")]]
  /\ bids = <<>>
  /\ wallet = [u \in Users |-> InitialBalance(u)]
  /\ holds = <<>>
  /\ wtx = <<WTx("A", "-", "credit", 100, 100), WTx("B", "-", "credit", 300, 300)>>
  /\ orders = <<>>
  /\ payments = <<Payment("A", "x", "seat", SeatFee)>>
  /\ txlog = <<>>
  /\ ledger = <<>>
  /\ proc = [p \in Procs |-> Idle]
  /\ locks = [p \in Procs |-> NoLocks]
  /\ ops = 0

NextSeat ==
  \/ \E p \in Procs, u \in People, i \in Items, provider \in Providers :
       book_seat(p, u, i, provider)
  \/ \E p \in Procs, u \in People, i \in Items, in_window \in BOOLEAN :
       unbook_seat(p, u, i, in_window)
  \/ \E p \in Procs, u \in People, i \in Items, posted \in PostedCodes :
       join_with_code(p, u, i, posted)
  \/ Paying
  \/ \E p \in Procs : respond(p)

SpecSeat == InitSeat /\ [][NextSeat]_vars

\* C38: on an item with a seat limit, the participants with a booked, not
\* unbooked seat are never more than seat_limit.
C38_SeatLimit ==
  \A i \in Items :
    seat_limit(i) > 0 => seat_holders(part, i) <= seat_limit(i)

\* C39: a user with a booked seat on an item has a seat Payment for that
\* item whose effects were applied.
C39_BookedOnlyByPayment ==
  \A i \in Items, u \in People :
    part[i][u].is_booked =>
      \E k \in 1..Len(payments) :
        /\ payments[k].purpose = "seat"
        /\ payments[k].item = i /\ payments[k].buyer = u
        /\ payments[k].processed

\* C40: the effects of a payment are applied (processed_at set) only while
\* the payment's status is 'succeeded'.
C40_EffectsOnlyWhenSucceeded ==
  [][\A k \in 1..Len(payments) :
       ~payments[k].processed /\ payments'[k].processed
         => payments[k].status = "succeeded"]_vars


====
